---- MODULE Spec2Model ----
(***************************************************************************)
(* The touch-gesture and momentum-scrolling handler (class SwipeHandler)   *)
(* as a state machine: one action per touch handler, destroy(), the timer  *)
(* callbacks the handler schedules, the passing of time and the page       *)
(* scrolling under it.                                                     *)
(*                                                                         *)
(* Numbers.  Touch coordinates and scroll positions are integers (px) and  *)
(* Date.now() is an integer (ms).  Every quantity the handler derives from *)
(* a division or from momentumMultiplier is an exact fraction <<n, d>>;    *)
(* <<n, 0>> with n > 0 is Infinity and <<0, 0>> is NaN, the two values a   *)
(* division by zero produces.                                              *)
(***************************************************************************)
EXTENDS Integers, Sequences, FiniteSets, TLC

VARIABLES
    element,                \* what initSwipeHandler's selector resolved to
    handle,                 \* what initSwipeHandler returned
    console,                \* the warnings logged with console.warn
    config,                 \* this.config, fixed at construction
    touchStartX,            \* this.touchStartX
    touchStartY,            \* this.touchStartY
    touchStartTime,         \* this.touchStartTime
    isScrolling,            \* this.isScrolling
    gradientOverlay,        \* this.gradientOverlay: "null", or its style.opacity
    gradientOverlayBottom,  \* this.gradientOverlayBottom: likewise
    listenersBound,         \* the four listeners added by _bindEvents
    timers,                 \* pending setTimeout callbacks, in scheduling order
    now,                    \* Date.now()
    scrollTop,              \* window.pageYOffset
    sections,               \* document tops of the section-like elements
    destroyed,              \* destroy() has been called
    lastEvent,              \* the handler that ran last, where a specification tracks it
    out,                    \* what the latest step did (callback, commands, throw)
    readyState,             \* document.readyState
    railClass,              \* the #swipeRail element: "absent", "collapsed" or "shown"
    rail,                   \* the rail closure's reference to it
    hideTimer,              \* the rail closure's hideTimer
    windowTimers,           \* due times of the pending auto-hide timers
    framePending,           \* a requestAnimationFrame callback is pending
    lastTouchEnd,           \* the double-tap guard's lastTouchEnd
    prevented,              \* the latest document touchend was default-prevented
    lastShown               \* when showRail last ran past its guard

vars == <<element, handle, console, config, touchStartX, touchStartY, touchStartTime, isScrolling,
          gradientOverlay, gradientOverlayBottom, listenersBound, timers, now,
          scrollTop, sections, destroyed, lastEvent, out,
          readyState, railClass, rail, hideTimer, windowTimers, framePending,
          lastTouchEnd, prevented, lastShown>>

railVars == <<readyState, railClass, rail, hideTimer, windowTimers, framePending,
              lastTouchEnd, prevented, lastShown>>

(***************************************************************************)
(* Bounds of the exploration.                                              *)
(***************************************************************************)
MaxX == 2            \* clientX ranges over 0..MaxX
MaxY == 2            \* clientY ranges over 0..MaxY
MaxTime == 4         \* the clock ticks by 1 ms up to here
MaxStart == 1        \* touches start up to this time
MaxScrollTop == 3    \* the page scrolls from 0 to here
MaxTimers == 2       \* pending timers
MinSwipe == 2        \* the configured minSwipeDistance
FeedbackMs == 2      \* the configured feedbackDuration
ViewportHeight == 3  \* window.innerHeight
InnerWidth == 375    \* window.innerWidth
StartClock == 1000   \* Date.now() when the rail script runs
MaxWait == 700       \* the user acts up to this long after that

(***************************************************************************)
(* Program constants.                                                      *)
(***************************************************************************)
NULL == -1           \* null (coordinates and times are never negative)
SnapDelay == 100
VelocityCap == 2
AUTO_HIDE_MS == 4000
EDGE_TRIGGER_PX == 72
DoubleTapMs == 300
Half == <<1, 2>>     \* the velocity threshold 0.5

DEFAULT_CONFIG ==
    [ minSwipeDistance   |-> 26,
      scrollSmoothness   |-> "smooth",
      snapToSections     |-> FALSE,
      showVisualFeedback |-> TRUE,
      feedbackDuration   |-> 300,
      verticalOnly       |-> TRUE,
      horizontalOnly     |-> FALSE,
      enableMomentum     |-> TRUE,
      momentumMultiplier |-> <<5, 2>>,
      enableGradient     |-> TRUE,
      onSwipe            |-> "absent" ]

(***************************************************************************)
(* Arithmetic.                                                             *)
(***************************************************************************)
Abs(n) == IF n < 0 THEN -n ELSE n

Max(a, b) == IF a > b THEN a ELSE b

RECURSIVE GCD(_, _)
GCD(a, b) == IF b = 0 THEN a ELSE GCD(b, a % b)

\* A fraction in lowest terms with a positive denominator; Infinity and NaN
\* (denominator 0) are kept as they are.
Norm(f) ==
    IF f[2] = 0 THEN f
    ELSE LET s == IF f[2] < 0 THEN -1 ELSE 1
             g == GCD(Abs(f[1]), Abs(f[2]))
         IN  <<(s * f[1]) \div g, (s * f[2]) \div g>>

FMul(f, g) == Norm(<<f[1] * g[1], f[2] * g[2]>>)
FAdd(f, g) == Norm(<<f[1] * g[2] + g[1] * f[2], f[2] * g[2]>>)
FSub(f, g) == Norm(<<f[1] * g[2] - g[1] * f[2], f[2] * g[2]>>)
\* f > g for a finite g; Infinity exceeds it, NaN compares false.
FGreater(f, g) ==
    IF f[2] = 0 THEN f[1] > 0 ELSE f[1] * g[2] > g[1] * f[2]

\* Math.min(v, cap): Infinity gives cap, NaN stays NaN.
MathMin(v, cap) ==
    IF v[2] = 0 THEN (IF v[1] > 0 THEN <<cap, 1>> ELSE v)
    ELSE IF v[1] > cap * v[2] THEN <<cap, 1>> ELSE Norm(v)

\* Math.max(0, f) for a finite f.
MathMax0(f) == IF f[1] < 0 THEN <<0, 1>> ELSE f

(***************************************************************************)
(* The pure parts of the handlers.                                         *)
(***************************************************************************)
\* isValidSwipe with the distance compared strictly (> for >=).
isValidSwipeWrongDistance(cfg, deltaX, deltaY) ==
    LET absDeltaX == Abs(deltaX)
        absDeltaY == Abs(deltaY)
        isVerticalSwipe == cfg.verticalOnly /\ absDeltaY > absDeltaX
        isHorizontalSwipe == cfg.horizontalOnly /\ absDeltaX > absDeltaY
        isSwipe == ~cfg.verticalOnly /\ ~cfg.horizontalOnly
    IN  /\ (isVerticalSwipe \/ isHorizontalSwipe \/ isSwipe)
        /\ (absDeltaY > cfg.minSwipeDistance \/ absDeltaX > cfg.minSwipeDistance)

\* _handleTouchEnd, "Check if this is a valid swipe": the condition under
\* which the swipe block runs.
isValidSwipe(cfg, deltaX, deltaY) ==
    LET absDeltaX == Abs(deltaX)
        absDeltaY == Abs(deltaY)
        isVerticalSwipe == cfg.verticalOnly /\ absDeltaY > absDeltaX
        isHorizontalSwipe == cfg.horizontalOnly /\ absDeltaX > absDeltaY
        isSwipe == ~cfg.verticalOnly /\ ~cfg.horizontalOnly
    IN  /\ (isVerticalSwipe \/ isHorizontalSwipe \/ isSwipe)
        /\ (absDeltaY >= cfg.minSwipeDistance \/ absDeltaX >= cfg.minSwipeDistance)

\* getSwipeDirection with the two outcomes of each sign test exchanged.
getSwipeDirectionSwapped(cfg, deltaX, deltaY) ==
    IF cfg.verticalOnly THEN (IF deltaY > 0 THEN "up" ELSE "down")
    ELSE IF cfg.horizontalOnly THEN (IF deltaX > 0 THEN "left" ELSE "right")
    ELSE IF Abs(deltaY) > Abs(deltaX)
         THEN (IF deltaY > 0 THEN "up" ELSE "down")
         ELSE (IF deltaX > 0 THEN "left" ELSE "right")

\* _getSwipeDirection
getSwipeDirection(cfg, deltaX, deltaY) ==
    IF cfg.verticalOnly THEN (IF deltaY > 0 THEN "down" ELSE "up")
    ELSE IF cfg.horizontalOnly THEN (IF deltaX > 0 THEN "right" ELSE "left")
    ELSE IF Abs(deltaY) > Abs(deltaX)
         THEN (IF deltaY > 0 THEN "down" ELSE "up")
         ELSE (IF deltaX > 0 THEN "right" ELSE "left")

\* scrollAmount with momentum applied from velocity 0.5 on (>= for >).
scrollAmountAtThreshold(cfg, deltaY, deltaTime) ==
    LET velocity == <<Abs(deltaY), deltaTime>>
        amount == <<Abs(deltaY), 1>>
    IN  IF cfg.enableMomentum /\ ~FGreater(Half, velocity)
        THEN FMul(amount, FMul(cfg.momentumMultiplier, MathMin(velocity, VelocityCap)))
        ELSE amount

\* scrollAmount with the velocity factor capped one higher.
scrollAmountUncapped(cfg, deltaY, deltaTime) ==
    LET velocity == <<Abs(deltaY), deltaTime>>
        amount == <<Abs(deltaY), 1>>
    IN  IF cfg.enableMomentum /\ FGreater(velocity, Half)
        THEN FMul(amount, FMul(cfg.momentumMultiplier,
                               MathMin(velocity, VelocityCap + 1)))
        ELSE amount

\* _handleVerticalScroll, the scroll amount: |deltaY|, amplified by
\* momentumMultiplier * min(velocity, 2) when the velocity exceeds 0.5.
scrollAmount(cfg, deltaY, deltaTime) ==
    LET velocity == <<Abs(deltaY), deltaTime>>
        amount == <<Abs(deltaY), 1>>
    IN  IF cfg.enableMomentum /\ FGreater(velocity, Half)
        THEN FMul(amount, FMul(cfg.momentumMultiplier, MathMin(velocity, VelocityCap)))
        ELSE amount

\* scrollToTop without Math.max(0, ...).
scrollToTopUnclamped(direction, currentScrollTop, amount) ==
    IF direction = "up" THEN FAdd(<<currentScrollTop, 1>>, amount)
                        ELSE FSub(<<currentScrollTop, 1>>, amount)

\* _handleVerticalScroll, the top handed to window.scrollTo.
scrollToTop(direction, currentScrollTop, amount) ==
    LET targetScrollTop ==
            IF direction = "up" THEN FAdd(<<currentScrollTop, 1>>, amount)
                                ELSE FSub(<<currentScrollTop, 1>>, amount)
    IN  MathMax0(targetScrollTop)

\* window.scrollTo({ top, behavior }): where the page can be when the call
\* returns.  'smooth' animates after the handler has returned (PageScroll);
\* 'auto' jumps at once, to the top asked for, kept within the page
\* (0..MaxScrollTop).  Positions are whole pixels: a fractional top lands on
\* either neighbour, a non-finite one counts as 0.
pageAfterScrollTo(behavior, top, current) ==
    IF behavior # "auto" THEN {current}
    ELSE IF top[2] = 0 THEN {0}
    ELSE LET lo == top[1] \div top[2]
             hi == IF top[1] % top[2] = 0 THEN lo ELSE lo + 1
         IN  {IF lo > MaxScrollTop THEN MaxScrollTop ELSE lo,
              IF hi > MaxScrollTop THEN MaxScrollTop ELSE hi}

\* section.scrollIntoView({ behavior, block: 'start' }): where the page can be
\* when the call returns.  'auto' brings the section's top to the top of the
\* viewport at once, as far as the page scrolls; 'smooth' animates later.
pageAfterScrollIntoView(behavior, secs, section, current) ==
    IF section = 0 THEN {current}
    ELSE pageAfterScrollTo(behavior, <<secs[section], 1>>, current)

\* _snapToNearestSection, the forEach: the index of the nearest section within
\* one viewport height (the first on a tie), 0 when there is none.
RECURSIVE nearestFrom(_, _, _, _, _)
nearestFrom(secs, i, currentScrollTop, nearest, minDistance) ==
    IF i > Len(secs) THEN nearest
    ELSE LET distance == Abs(secs[i] - currentScrollTop)
         IN  IF (nearest = 0 \/ distance < minDistance) /\ distance < ViewportHeight
             THEN nearestFrom(secs, i + 1, currentScrollTop, i, distance)
             ELSE nearestFrom(secs, i + 1, currentScrollTop, nearest, minDistance)

\* The forEach admitting a section at exactly one viewport height.
RECURSIVE nearestFromWithinOrAt(_, _, _, _, _)
nearestFromWithinOrAt(secs, i, currentScrollTop, nearest, minDistance) ==
    IF i > Len(secs) THEN nearest
    ELSE LET distance == Abs(secs[i] - currentScrollTop)
         IN  IF (nearest = 0 \/ distance < minDistance) /\ distance <= ViewportHeight
             THEN nearestFromWithinOrAt(secs, i + 1, currentScrollTop, i, distance)
             ELSE nearestFromWithinOrAt(secs, i + 1, currentScrollTop, nearest,
                                        minDistance)

\* nearestSection with distance <= viewportHeight for distance < viewportHeight.
nearestSectionWithinOrAt(secs, currentScrollTop) ==
    nearestFromWithinOrAt(secs, 1, currentScrollTop, 0, 0)

\* _snapToNearestSection: the section it picks, 0 for none.
nearestSection(secs, currentScrollTop) ==
    nearestFrom(secs, 1, currentScrollTop, 0, 0)
(***************************************************************************)
(* Construction.                                                           *)
(***************************************************************************)
Multipliers == {<<5, 2>>, <<2, 1>>, <<1, 1>>}
Callbacks == {"absent", "returns", "throws"}
\* Pages without sections; with three, of which the last is the nearest of two
\* in range at the top of the page and the second at the bottom; and with one
\* section that is exactly one viewport height from the top of the page.
SectionLayouts == {<<>>, <<ViewportHeight + 3, 2, 1>>, <<ViewportHeight>>}
ScrollTops == {0, MaxScrollTop}

\* { ...DEFAULT_CONFIG, ...config } for the configurations explored, all with
\* minSwipeDistance and feedbackDuration set: every axis mode with every
\* onSwipe callback, every momentum setting and every feedback setting.
\* Section snapping is explored on its own (SnapSpec, below).
BaseConfig ==
    [DEFAULT_CONFIG EXCEPT !.minSwipeDistance = MinSwipe,
                           !.feedbackDuration = FeedbackMs]

AxisConfigs ==
    { [BaseConfig EXCEPT !.showVisualFeedback = FALSE,
                         !.verticalOnly = v,
                         !.horizontalOnly = h,
                         !.onSwipe = cb] :
        v \in BOOLEAN, h \in BOOLEAN, cb \in Callbacks }

MomentumConfigs ==
    { [BaseConfig EXCEPT !.showVisualFeedback = FALSE,
                         !.enableMomentum = m,
                         !.momentumMultiplier = mm] :
        m \in BOOLEAN, mm \in Multipliers }

FeedbackConfigs ==
    { [BaseConfig EXCEPT !.showVisualFeedback = f] : f \in BOOLEAN }
    \cup { [BaseConfig EXCEPT !.enableGradient = FALSE] }

Configs == AxisConfigs \cup MomentumConfigs \cup FeedbackConfigs

\* Section snapping on and off, without the overlays, and section snapping
\* with scrollSmoothness 'auto'.
SnapConfigs ==
    { [BaseConfig EXCEPT !.showVisualFeedback = FALSE,
                         !.snapToSections = s] : s \in BOOLEAN }
    \cup { [BaseConfig EXCEPT !.showVisualFeedback = FALSE,
                              !.snapToSections = TRUE,
                              !.scrollSmoothness = "auto"] }

\* What a selector resolves to: nothing, or an element.
Elements == {"null", "element"}

\* initSwipeHandler constructing a handler whatever the selector resolved to.
initSwipeHandlerUnchecked(el) ==
    [handle |-> "SwipeHandler", console |-> <<>>]

\* initSwipeHandler: the handle it returns and what it logs.
initSwipeHandler(el) ==
    IF el = "null"
    THEN [handle |-> "null", console |-> <<"SwipeHandler: Element not found">>]
    ELSE [handle |-> "SwipeHandler", console |-> <<>>]

\* The effects of one step, all absent.  calls lists the calls the step made
\* to config.onSwipe and window.scrollTo, in order.
Quiet ==
    [ handled          |-> FALSE,
      threw            |-> FALSE,
      preventDefault   |-> FALSE,
      calls            |-> <<>>,
      onSwipeArgs      |-> <<>>,
      swipe            |-> "none",
      deltaX           |-> 0,
      deltaY           |-> 0,
      deltaTime        |-> 0,
      onSwipeCalled    |-> FALSE,
      currentScrollTop |-> 0,
      scrollAmount     |-> <<>>,
      scrollTo         |-> <<>>,
      snapTarget       |-> 0,
      scrollIntoView   |-> 0 ]

\* initSwipeHandler and, when it finds the element, the constructor with
\* _createGradientOverlay and _bindEvents.  Without a handler, config is the
\* argument that was passed.
Constructed ==
    /\ handle = initSwipeHandler(element).handle
    /\ console = initSwipeHandler(element).console
    /\ touchStartX = NULL
    /\ touchStartY = NULL
    /\ touchStartTime = NULL
    /\ isScrolling = FALSE
    /\ gradientOverlay =
           IF handle # "null" /\ config.showVisualFeedback /\ config.enableGradient
           THEN "0" ELSE "null"
    /\ gradientOverlayBottom =
           IF handle # "null" /\ config.showVisualFeedback /\ config.enableGradient
           THEN "0" ELSE "null"
    /\ listenersBound = (handle # "null")
    /\ timers = <<>>
    /\ scrollTop = 0
    /\ sections \in (IF config.snapToSections THEN SectionLayouts ELSE {<<>>})
    /\ destroyed = FALSE
    /\ lastEvent = "none"
    /\ out = Quiet

\* The second closure of the file as it is when its script has run: no rail
\* reference, no timer, lastTouchEnd 0.
RailScript ==
    /\ rail = "null"
    /\ hideTimer = NULL
    /\ windowTimers = <<>>
    /\ framePending = FALSE
    /\ lastTouchEnd = 0
    /\ prevented = FALSE
    /\ lastShown = NULL

\* A document that had loaded before the rail script ran: neither of its
\* load listeners ever runs, and the rail is never created.
PageLoaded ==
    /\ readyState = "complete"
    /\ railClass = "absent"

\* Every configuration of Configs, the element found or not.
Init ==
    /\ element \in Elements
    /\ config \in Configs
    /\ now = 0
    /\ Constructed
    /\ RailScript
    /\ PageLoaded

(***************************************************************************)
(* The touch handlers.  An event carries a list of touch points (touches   *)
(* for start and move, changedTouches for end), each a pair <<clientX,     *)
(* clientY>>; the handlers read the first one, if any.  The lists explored *)
(* are the empty one, every single touch, and one with two fingers.        *)
(***************************************************************************)
Points == (0..MaxX) \X (0..MaxY)

TouchLists ==
    {<<>>} \cup {<<p>> : p \in Points} \cup {<<<<0, 0>>, <<MaxX, MaxY>>>>}

\* _handleTouchStart without its early return: reading clientX of a missing
\* touch throws.
TouchStartUnguarded(touches) ==
    /\ listenersBound
    /\ now <= MaxStart
    /\ IF touches = <<>>
       THEN /\ out' = [Quiet EXCEPT !.threw = TRUE]
            /\ UNCHANGED <<touchStartX, touchStartY, touchStartTime, isScrolling>>
       ELSE /\ out' = Quiet
            /\ touchStartX' = touches[1][1]
            /\ touchStartY' = touches[1][2]
            /\ touchStartTime' = now
            /\ isScrolling' = FALSE
    /\ UNCHANGED <<element, handle, console, config, gradientOverlay,
                   gradientOverlayBottom, listenersBound,
                   timers, now, scrollTop, sections, destroyed>>

\* _handleTouchStart.  It also stores the scroll position in
\* this.lastScrollTop, a field nothing reads: the model leaves it out.
TouchStart(touches) ==
    /\ listenersBound
    /\ now <= MaxStart
    /\ out' = Quiet
    /\ IF touches = <<>>
       THEN UNCHANGED <<touchStartX, touchStartY, touchStartTime, isScrolling>>
       ELSE /\ touchStartX' = touches[1][1]
            /\ touchStartY' = touches[1][2]
            /\ touchStartTime' = now
            /\ isScrolling' = FALSE
    /\ UNCHANGED <<element, handle, console, config, gradientOverlay, gradientOverlayBottom,
                   listenersBound,
                   timers, now, scrollTop, sections, destroyed>>

\* axisLocks with the two comparisons admitting equality.
axisLocksOnTie(cfg, deltaX, deltaY) ==
    \/ (cfg.verticalOnly /\ deltaY >= deltaX)
    \/ (cfg.horizontalOnly /\ deltaX >= deltaY)
    \/ (~cfg.verticalOnly /\ ~cfg.horizontalOnly)

\* _handleTouchMove, "Determine scroll direction": whether a move with these
\* absolute deltas sets isScrolling.
axisLocks(cfg, deltaX, deltaY) ==
    \/ (cfg.verticalOnly /\ deltaY > deltaX)
    \/ (cfg.horizontalOnly /\ deltaX > deltaY)
    \/ (~cfg.verticalOnly /\ ~cfg.horizontalOnly)

\* _handleTouchMove deciding the lock anew on every move.
TouchMoveReevaluatesLock(touches) ==
    /\ listenersBound
    /\ out' = Quiet
    /\ IF touchStartY = NULL \/ touches = <<>>
       THEN UNCHANGED isScrolling
       ELSE LET deltaX == Abs(touches[1][1] - touchStartX)
                deltaY == Abs(touches[1][2] - touchStartY)
            IN  isScrolling' = axisLocks(config, deltaX, deltaY)
    /\ UNCHANGED <<element, handle, console, config, touchStartX, touchStartY,
                   touchStartTime, gradientOverlay, gradientOverlayBottom,
                   listenersBound, timers, now, scrollTop, sections, destroyed>>

\* _handleTouchMove calling e.preventDefault() where it is locked and does not
\* take the early return of its last test.
TouchMovePreventsDefault(touches) ==
    /\ listenersBound
    /\ IF touchStartY = NULL \/ touches = <<>>
       THEN UNCHANGED isScrolling /\ out' = Quiet
       ELSE LET deltaX == Abs(touches[1][1] - touchStartX)
                deltaY == Abs(touches[1][2] - touchStartY)
            IN  /\ isScrolling' =
                       IF ~isScrolling
                       THEN \/ (config.verticalOnly /\ deltaY > deltaX)
                            \/ (config.horizontalOnly /\ deltaX > deltaY)
                            \/ (~config.verticalOnly /\ ~config.horizontalOnly)
                       ELSE isScrolling
                /\ out' = [Quiet EXCEPT
                              !.preventDefault =
                                  /\ isScrolling'
                                  /\ ~(config.verticalOnly /\ deltaY > deltaX)]
    /\ UNCHANGED <<element, handle, console, config, touchStartX, touchStartY,
                   touchStartTime, gradientOverlay, gradientOverlayBottom,
                   listenersBound, timers, now, scrollTop, sections, destroyed>>

\* _handleTouchMove.  Neither of its two ends calls e.preventDefault().
TouchMove(touches) ==
    /\ listenersBound
    /\ out' = Quiet
    /\ IF touchStartY = NULL \/ touches = <<>>
       THEN UNCHANGED isScrolling
       ELSE LET deltaX == Abs(touches[1][1] - touchStartX)
                deltaY == Abs(touches[1][2] - touchStartY)
            IN  isScrolling' =
                    IF ~isScrolling THEN axisLocks(config, deltaX, deltaY)
                                    ELSE isScrolling
    /\ UNCHANGED <<element, handle, console, config, touchStartX, touchStartY,
                   touchStartTime, gradientOverlay, gradientOverlayBottom,
                   listenersBound, timers, now, scrollTop, sections, destroyed>>

\* _showGradient: the overlay it turns on for a direction, given the two
\* overlay references.
gradientShown(cfg, direction, top, bottom) ==
    IF ~cfg.enableGradient THEN "none"
    ELSE IF direction = "up" /\ top # "null" THEN "top"
    ELSE IF direction = "down" /\ bottom # "null" THEN "bottom"
    ELSE "none"

\* The calls of the swipe block with window.scrollTo ahead of config.onSwipe.
swipeCallsScrollFirst(called, scrolls) ==
    (IF scrolls THEN <<"scrollTo">> ELSE <<>>)
    \o (IF called THEN <<"onSwipe">> ELSE <<>>)

\* _handleTouchEnd, the swipe block: config.onSwipe, if there is one, and then
\* (in _handleVerticalScroll) window.scrollTo.
swipeCalls(called, scrolls) ==
    (IF called THEN <<"onSwipe">> ELSE <<>>)
    \o (IF scrolls THEN <<"scrollTo">> ELSE <<>>)

\* _resetTouch leaves these values.
ResetTouch ==
    /\ touchStartX' = NULL
    /\ touchStartY' = NULL
    /\ touchStartTime' = NULL
    /\ isScrolling' = FALSE

\* _handleTouchEnd, with _getSwipeDirection, the onSwipe callback,
\* _handleVerticalScroll, _showGradient, _snapToNearestSection and _resetTouch.
\* A throwing callback ends the handler where it is called.
TouchEnd(changedTouches) ==
    /\ listenersBound
    /\ IF (touchStartY = NULL /\ touchStartX = NULL) \/ changedTouches = <<>>
       THEN /\ out' = Quiet
            /\ UNCHANGED <<touchStartX, touchStartY, touchStartTime,
                           isScrolling, scrollTop,
                           gradientOverlay, gradientOverlayBottom, timers>>
       ELSE LET deltaX == changedTouches[1][1] - touchStartX
                deltaY == changedTouches[1][2] - touchStartY
                deltaTime == now - touchStartTime
                valid == isValidSwipe(config, deltaX, deltaY)
                swipeDirection == getSwipeDirection(config, deltaX, deltaY)
                called == valid /\ config.onSwipe # "absent"
                throws == called /\ config.onSwipe = "throws"
                scrolls == valid /\ ~throws /\ config.verticalOnly
                amount == scrollAmount(config, deltaY, deltaTime)
                shown == IF scrolls
                         THEN gradientShown(config, swipeDirection,
                                            gradientOverlay, gradientOverlayBottom)
                         ELSE "none"
                hide == IF shown = "none" THEN <<>>
                        ELSE <<[kind |-> IF shown = "top" THEN "hideTop"
                                                           ELSE "hideBottom",
                                due |-> now + config.feedbackDuration,
                                section |-> 0]>>
                top == scrollToTop(swipeDirection, scrollTop, amount)
                \* _snapToNearestSection reads window.pageYOffset anew, after
                \* window.scrollTo has returned.
                nearest == IF scrolls /\ config.snapToSections
                           THEN nearestSection(sections, scrollTop')
                           ELSE 0
                snap == IF nearest = 0 THEN <<>>
                        ELSE <<[kind |-> "snap", due |-> now + SnapDelay,
                                section |-> nearest]>>
            IN  /\ scrollTop' \in
                       IF scrolls
                       THEN pageAfterScrollTo(config.scrollSmoothness, top, scrollTop)
                       ELSE {scrollTop}
                /\ Len(timers) + Len(hide) + Len(snap) <= MaxTimers
                /\ out' = [Quiet EXCEPT
                              !.handled = TRUE,
                              !.threw = throws,
                              !.swipe = IF valid THEN swipeDirection ELSE "none",
                              !.deltaX = deltaX,
                              !.deltaY = deltaY,
                              !.deltaTime = deltaTime,
                              !.onSwipeCalled = called,
                              !.calls = swipeCalls(called, scrolls),
                              !.onSwipeArgs =
                                  IF called
                                  THEN <<swipeDirection, deltaX, deltaY, deltaTime>>
                                  ELSE <<>>,
                              !.currentScrollTop = scrollTop,
                              !.scrollAmount = IF scrolls THEN amount ELSE <<>>,
                              !.scrollTo = IF scrolls THEN top ELSE <<>>,
                              !.snapTarget = nearest]
                /\ gradientOverlay' = IF shown = "top" THEN "1" ELSE gradientOverlay
                /\ gradientOverlayBottom' =
                       IF shown = "bottom" THEN "1" ELSE gradientOverlayBottom
                /\ timers' = timers \o hide \o snap
                /\ IF throws
                   THEN UNCHANGED <<touchStartX, touchStartY, touchStartTime,
                                    isScrolling>>
                   ELSE ResetTouch
    /\ UNCHANGED <<element, handle, console, config, listenersBound, now, sections,
                   destroyed>>

\* _handleTouchCancel clearing the origin and leaving isScrolling as it is.
TouchCancelKeepsLock ==
    /\ listenersBound
    /\ touchStartX' = NULL
    /\ touchStartY' = NULL
    /\ touchStartTime' = NULL
    /\ out' = Quiet
    /\ UNCHANGED <<element, handle, console, config, isScrolling,
                   gradientOverlay, gradientOverlayBottom,
                   listenersBound, timers, now, scrollTop, sections, destroyed>>

\* _handleTouchCancel
TouchCancel ==
    /\ listenersBound
    /\ ResetTouch
    /\ out' = Quiet
    /\ UNCHANGED <<element, handle, console, config, gradientOverlay, gradientOverlayBottom,
                   listenersBound, timers, now, scrollTop, sections, destroyed>>

\* destroy without its two null tests: remove() on a null overlay throws.
DestroyUnguarded ==
    /\ handle # "null"
    /\ gradientOverlay' = "null"
    /\ gradientOverlayBottom' = "null"
    /\ destroyed' = TRUE
    /\ out' = [Quiet EXCEPT !.threw = (gradientOverlay = "null")]
    /\ UNCHANGED <<element, handle, console, config, touchStartX, touchStartY,
                   touchStartTime, isScrolling, listenersBound, timers, now,
                   scrollTop, sections>>

\* destroy
Destroy ==
    /\ handle # "null"
    /\ gradientOverlay' = "null"
    /\ gradientOverlayBottom' = "null"
    /\ destroyed' = TRUE
    /\ out' = Quiet
    /\ UNCHANGED <<element, handle, console, config, touchStartX, touchStartY, touchStartTime,
                   isScrolling, listenersBound, timers, now, scrollTop,
                   sections>>

(***************************************************************************)
(* Time and timers.  A timer fires when the clock reaches its due time,    *)
(* the earliest first and, among equals, in scheduling order.              *)
(***************************************************************************)
NextTimer ==
    CHOOSE i \in 1..Len(timers) :
        \A j \in 1..Len(timers) :
            /\ timers[i].due <= timers[j].due
            /\ j < i => timers[j].due > timers[i].due

Without(seq, i) == SubSeq(seq, 1, i - 1) \o SubSeq(seq, i + 1, Len(seq))

\* The snap callback choosing its section when it runs, from the scroll
\* position of that moment.
TimerFireRecomputes ==
    /\ timers # <<>>
    /\ LET t == timers[NextTimer]
       IN  /\ now' = Max(now, t.due)
           /\ scrollTop' \in
                  IF t.kind = "snap"
                  THEN pageAfterScrollIntoView(config.scrollSmoothness, sections,
                                               nearestSection(sections, scrollTop), scrollTop)
                  ELSE {scrollTop}
           /\ timers' = Without(timers, NextTimer)
           /\ gradientOverlay' =
                  IF t.kind = "hideTop" /\ gradientOverlay # "null"
                  THEN "0" ELSE gradientOverlay
           /\ gradientOverlayBottom' =
                  IF t.kind = "hideBottom" /\ gradientOverlayBottom # "null"
                  THEN "0" ELSE gradientOverlayBottom
           /\ out' = [Quiet EXCEPT
                         !.scrollIntoView =
                             IF t.kind = "snap"
                             THEN nearestSection(sections, scrollTop) ELSE 0]
    /\ UNCHANGED <<element, handle, console, config, touchStartX, touchStartY,
                   touchStartTime, isScrolling, listenersBound,
                   sections, destroyed>>

\* The hide callbacks without their null test: setting style.opacity on a
\* null overlay throws.
TimerFireUnguarded ==
    /\ timers # <<>>
    /\ LET t == timers[NextTimer]
           overlay == IF t.kind = "hideTop" THEN gradientOverlay
                      ELSE IF t.kind = "hideBottom" THEN gradientOverlayBottom
                      ELSE "0"
       IN  /\ now' = Max(now, t.due)
           /\ scrollTop' \in
                  IF t.kind = "snap"
                  THEN pageAfterScrollIntoView(config.scrollSmoothness, sections,
                                               t.section, scrollTop)
                  ELSE {scrollTop}
           /\ timers' = Without(timers, NextTimer)
           /\ gradientOverlay' =
                  IF t.kind = "hideTop" /\ gradientOverlay # "null"
                  THEN "0" ELSE gradientOverlay
           /\ gradientOverlayBottom' =
                  IF t.kind = "hideBottom" /\ gradientOverlayBottom # "null"
                  THEN "0" ELSE gradientOverlayBottom
           /\ out' = [Quiet EXCEPT
                         !.threw = (overlay = "null"),
                         !.scrollIntoView = IF t.kind = "snap" THEN t.section ELSE 0]
    /\ UNCHANGED <<element, handle, console, config, touchStartX, touchStartY,
                   touchStartTime, isScrolling, listenersBound,
                   sections, destroyed>>

\* Timer callbacks running without waiting for their delay.
TimerFireEarly ==
    /\ timers # <<>>
    /\ LET t == timers[NextTimer]
       IN  /\ now' = now
           /\ scrollTop' \in
                  IF t.kind = "snap"
                  THEN pageAfterScrollIntoView(config.scrollSmoothness, sections,
                                               t.section, scrollTop)
                  ELSE {scrollTop}
           /\ timers' = Without(timers, NextTimer)
           /\ gradientOverlay' =
                  IF t.kind = "hideTop" /\ gradientOverlay # "null"
                  THEN "0" ELSE gradientOverlay
           /\ gradientOverlayBottom' =
                  IF t.kind = "hideBottom" /\ gradientOverlayBottom # "null"
                  THEN "0" ELSE gradientOverlayBottom
           /\ out' = [Quiet EXCEPT
                         !.scrollIntoView = IF t.kind = "snap" THEN t.section ELSE 0]
    /\ UNCHANGED <<element, handle, console, config, touchStartX, touchStartY,
                   touchStartTime, isScrolling, listenersBound,
                   sections, destroyed>>

\* The setTimeout callbacks of _showGradient and _snapToNearestSection.
TimerFire ==
    /\ timers # <<>>
    /\ LET t == timers[NextTimer]
       IN  /\ now' = Max(now, t.due)
           /\ scrollTop' \in
                  IF t.kind = "snap"
                  THEN pageAfterScrollIntoView(config.scrollSmoothness, sections,
                                               t.section, scrollTop)
                  ELSE {scrollTop}
           /\ timers' = Without(timers, NextTimer)
           /\ gradientOverlay' =
                  IF t.kind = "hideTop" /\ gradientOverlay # "null"
                  THEN "0" ELSE gradientOverlay
           /\ gradientOverlayBottom' =
                  IF t.kind = "hideBottom" /\ gradientOverlayBottom # "null"
                  THEN "0" ELSE gradientOverlayBottom
           /\ out' = [Quiet EXCEPT
                         !.scrollIntoView = IF t.kind = "snap" THEN t.section ELSE 0]
    /\ UNCHANGED <<element, handle, console, config, touchStartX, touchStartY, touchStartTime,
                   isScrolling, listenersBound, sections,
                   destroyed>>

\* One millisecond passes.  A callback that is due may still be pending: it
\* runs when the page gets to it, never before its time.
Tick ==
    /\ now < MaxTime
    /\ now' = now + 1
    /\ out' = Quiet
    /\ UNCHANGED <<element, handle, console, config, touchStartX, touchStartY, touchStartTime,
                   isScrolling, gradientOverlay, gradientOverlayBottom,
                   listenersBound, timers, scrollTop, sections, destroyed>>

\* The page scrolls (the user, or the animation of an earlier command).
PageScroll(p) ==
    /\ p # scrollTop
    /\ scrollTop' = p
    /\ out' = Quiet
    /\ UNCHANGED <<element, handle, console, config, touchStartX, touchStartY, touchStartTime,
                   isScrolling, gradientOverlay, gradientOverlayBottom,
                   listenersBound, timers, now, sections, destroyed>>

\* What a touch lands on: something inside an interactive element, or
\* anything else.
ElementTargets == {"interactive", "other"}

\* The guard comparing with < where the listener compares with <=.
doubleTapStrict(elapsed) == elapsed < DoubleTapMs

\* The test of the touchend listener: now - lastTouchEnd <= 300.
doubleTap(elapsed) == elapsed <= DoubleTapMs

\* The document touchend listener.
DocTouchEnd(target) ==
    /\ IF target = "interactive"
       THEN /\ lastTouchEnd' = now
            /\ prevented' = FALSE
       ELSE /\ prevented' = doubleTap(now - lastTouchEnd)
            /\ lastTouchEnd' = now
    /\ UNCHANGED <<readyState, railClass, rail, hideTimer, windowTimers, framePending,
                   lastShown, now>>

\* A touchend that reaches no swipe handler (none was constructed, or the
\* touch is outside its element): only the document listener runs.
PageTouchEnd(target) ==
    /\ DocTouchEnd(target)
    /\ out' = Quiet
    /\ UNCHANGED <<element, handle, console, config, touchStartX, touchStartY, touchStartTime,
                   isScrolling, gradientOverlay, gradientOverlayBottom,
                   listenersBound, timers, scrollTop, sections, destroyed>>

\* Every handler under every input; lastEvent is not tracked.  A touchend on
\* the handler's element bubbles to document, where the listener of the
\* double-tap guard runs after the handler's own (also when that one threw).
Next ==
    \/ \E touches \in TouchLists : TouchStart(touches) /\ UNCHANGED <<lastEvent, railVars>>
    \/ \E touches \in TouchLists : TouchMove(touches) /\ UNCHANGED <<lastEvent, railVars>>
    \/ \E changedTouches \in TouchLists, target \in ElementTargets :
           TouchEnd(changedTouches) /\ DocTouchEnd(target) /\ UNCHANGED lastEvent
    \/ \E target \in ElementTargets : PageTouchEnd(target) /\ UNCHANGED lastEvent
    \/ TouchCancel /\ UNCHANGED <<lastEvent, railVars>>
    \/ Destroy /\ UNCHANGED <<lastEvent, railVars>>
    \/ TimerFire /\ UNCHANGED <<lastEvent, railVars>>
    \/ Tick /\ UNCHANGED <<lastEvent, railVars>>
    \/ \E p \in ScrollTops : PageScroll(p) /\ UNCHANGED <<lastEvent, railVars>>

Spec == Init /\ [][Next]_vars

\* One handler on a page with section-like elements, snapToSections on or off.
SnapInit ==
    /\ element = "element"
    /\ config \in SnapConfigs
    /\ now = 0
    /\ Constructed
    /\ RailScript
    /\ PageLoaded

SnapSpec == SnapInit /\ [][Next]_vars

(***************************************************************************)
(* The same handlers on one handler, with the default configuration or in  *)
(* any-axis mode with an onSwipe callback and no overlays, and with        *)
(* lastEvent naming the handler that ran last (for a start, also whether   *)
(* the event carried no touch or more than one; for a cancel, whether an   *)
(* interaction was in progress; for a destroy() call, whether it was the   *)
(* first).  The page stays at the top: nothing here depends on where it is *)
(* scrolled to.                                                            *)
(***************************************************************************)
TracedConfigs ==
    { BaseConfig,
      [BaseConfig EXCEPT !.showVisualFeedback = FALSE,
                         !.verticalOnly = FALSE,
                         !.onSwipe = "returns"] }

TracedInit ==
    /\ Init
    /\ element = "element"
    /\ config \in TracedConfigs

TracedNext ==
    \/ \E touches \in TouchLists :
           /\ TouchStart(touches)
           /\ lastEvent' = IF Len(touches) > 1 THEN "touchstart, two touches"
                           ELSE IF Len(touches) = 0 THEN "touchstart, no touch"
                           ELSE "touchstart"
           /\ UNCHANGED railVars
    \/ \E touches \in TouchLists :
           TouchMove(touches) /\ lastEvent' = "touchmove" /\ UNCHANGED railVars
    \/ \E changedTouches \in TouchLists, target \in ElementTargets :
           TouchEnd(changedTouches) /\ DocTouchEnd(target) /\ lastEvent' = "touchend"
    \/ \E target \in ElementTargets :
           PageTouchEnd(target) /\ lastEvent' = "touchend elsewhere"
    \/ /\ TouchCancel
       /\ lastEvent' = IF touchStartX = NULL THEN "touchcancel idle" ELSE "touchcancel"
       /\ UNCHANGED railVars
    \/ /\ Destroy
       /\ lastEvent' = IF destroyed THEN "destroy again" ELSE "destroy"
       /\ UNCHANGED railVars
    \/ TimerFire /\ lastEvent' = "timer" /\ UNCHANGED railVars
    \/ Tick /\ lastEvent' = "tick" /\ UNCHANGED railVars

TracedSpec == TracedInit /\ [][TracedNext]_vars

(***************************************************************************)
(* The swipe rail and the document-level double-tap guard: the second      *)
(* closure of the file.  Its listeners are on document and window, so they *)
(* run whatever the swipe handler does.  setTimeout returns a fresh id for *)
(* every timer; here a timer is identified by its due time, which differs  *)
(* between any two timers that can be told apart.  A timer callback may    *)
(* run late, never early.                                                  *)
(***************************************************************************)
ReadyStates == {"loading", "interactive", "complete"}
RailClasses == {"absent", "collapsed", "shown"}
Targets == ElementTargets \cup {"rail", "none"}
PointerXs == {InnerWidth - EDGE_TRIGGER_PX - 1, InnerWidth - EDGE_TRIGGER_PX, InnerWidth}
Delays == {DoubleTapMs, DoubleTapMs + 1}

handlerVars == <<element, handle, console, config, touchStartX, touchStartY, touchStartTime,
                 isScrolling, gradientOverlay, gradientOverlayBottom, listenersBound,
                 timers, scrollTop, sections, destroyed, out>>

\* ensureRail: the class of the element it leaves in the document.
ensureRail(cls) == IF cls = "absent" THEN "collapsed" ELSE cls

\* hideRail, given the rail reference.
hideRail(r, cls) == IF r = "null" THEN cls ELSE "collapsed"

\* window.clearTimeout(id).
clearTimeout(ts, id) ==
    IF \E i \in 1..Len(ts) : ts[i] = id
    THEN LET i == CHOOSE k \in 1..Len(ts) :
                      ts[k] = id /\ \A j \in 1..(k - 1) : ts[j] # id
         IN  Without(ts, i)
    ELSE ts

\* showRail scheduling a timer without clearing the one before.
showRailKeepsTimer(autoHide) ==
    IF rail = "null"
    THEN UNCHANGED <<railClass, hideTimer, windowTimers, lastShown>>
    ELSE /\ railClass' = "shown"
         /\ lastShown' = now
         /\ hideTimer' = IF autoHide THEN now + AUTO_HIDE_MS ELSE hideTimer
         /\ windowTimers' = IF autoHide THEN Append(windowTimers, now + AUTO_HIDE_MS)
                                        ELSE windowTimers

\* showRail({ autoHide }).
showRail(autoHide) ==
    IF rail = "null"
    THEN UNCHANGED <<railClass, hideTimer, windowTimers, lastShown>>
    ELSE LET cleared == IF hideTimer # NULL THEN clearTimeout(windowTimers, hideTimer)
                                            ELSE windowTimers
         IN  /\ railClass' = "shown"
             /\ lastShown' = now
             /\ hideTimer' = IF autoHide THEN now + AUTO_HIDE_MS ELSE NULL
             /\ windowTimers' = IF autoHide THEN Append(cleared, now + AUTO_HIDE_MS)
                                            ELSE cleared

\* The DOMContentLoaded listener: ensureRail, hideRail.
DOMContentLoaded ==
    /\ readyState = "loading"
    /\ readyState' = "interactive"
    /\ rail' = "element"
    /\ railClass' = hideRail("element", ensureRail(railClass))
    /\ UNCHANGED <<hideTimer, windowTimers, framePending, lastTouchEnd, prevented,
                   lastShown, now>>

\* The load listener: ensureRail, and showRail asked for on the next frame.
Load ==
    /\ readyState = "interactive"
    /\ readyState' = "complete"
    /\ rail' = "element"
    /\ railClass' = ensureRail(railClass)
    /\ framePending' = TRUE
    /\ UNCHANGED <<hideTimer, windowTimers, lastTouchEnd, prevented, lastShown, now>>

\* The requestAnimationFrame callback of the load listener.
Frame ==
    /\ framePending
    /\ framePending' = FALSE
    /\ showRail(TRUE)
    /\ UNCHANGED <<readyState, rail, lastTouchEnd, prevented, now>>

\* The pointerdown listener reaches showRail for this event.
pointerShows(target, clientX) ==
    /\ rail # "null"
    /\ \/ target = "rail"
       \/ InnerWidth - clientX <= EDGE_TRIGGER_PX

\* The pointerdown listener.
PointerDown(target, clientX) ==
    /\ now <= StartClock + MaxWait
    /\ IF pointerShows(target, clientX)
       THEN showRail(TRUE)
       ELSE UNCHANGED <<railClass, hideTimer, windowTimers, lastShown>>
    /\ UNCHANGED <<readyState, rail, framePending, lastTouchEnd, prevented, now>>

EarliestWindowTimer ==
    CHOOSE i \in 1..Len(windowTimers) :
        \A j \in 1..Len(windowTimers) :
            \/ windowTimers[i] < windowTimers[j]
            \/ (windowTimers[i] = windowTimers[j] /\ i <= j)

\* The auto-hide callback: hideRail.
HideTimerFire ==
    /\ windowTimers # <<>>
    /\ LET i == EarliestWindowTimer
       IN  /\ now' = Max(now, windowTimers[i])
           /\ windowTimers' = Without(windowTimers, i)
    /\ railClass' = hideRail(rail, railClass)
    /\ UNCHANGED <<readyState, rail, hideTimer, framePending, lastTouchEnd, prevented,
                   lastShown>>

\* Time passes.
Wait(d) ==
    /\ now + d <= StartClock + MaxWait
    /\ now' = now + d
    /\ UNCHANGED railVars

\* A page at any stage of loading when the rail script runs, with or without
\* a #swipeRail element in its markup.  No touch starts on the swipe handler's
\* element, so the handler stays idle: its touchend listener returns at once
\* for whatever touchend reaches it, and DocTouchEnd is the whole dispatch.
RailInit ==
    /\ element = "element"
    /\ config = BaseConfig
    /\ now = StartClock
    /\ Constructed
    /\ RailScript
    /\ readyState \in ReadyStates
    /\ railClass \in RailClasses

RailNext ==
    \/ DOMContentLoaded /\ lastEvent' = "DOMContentLoaded" /\ UNCHANGED handlerVars
    \/ Load /\ lastEvent' = "load" /\ UNCHANGED handlerVars
    \/ Frame /\ lastEvent' = "frame" /\ UNCHANGED handlerVars
    \/ \E target \in Targets, clientX \in PointerXs :
           /\ PointerDown(target, clientX)
           /\ lastEvent' = IF pointerShows(target, clientX) THEN "pointerdown, showRail"
                                                            ELSE "pointerdown"
           /\ UNCHANGED handlerVars
    \/ HideTimerFire /\ lastEvent' = "hideTimer" /\ UNCHANGED handlerVars
    \/ \E target \in Targets :
           /\ DocTouchEnd(target)
           /\ lastEvent' = IF target = "interactive" THEN "touchend, interactive"
                                                     ELSE "touchend"
           /\ UNCHANGED handlerVars
    \/ \E d \in Delays : Wait(d) /\ lastEvent' = "wait" /\ UNCHANGED handlerVars

RailSpec == RailInit /\ [][RailNext]_vars
(***************************************************************************)
(* Vocabulary of the properties.                                           *)
(***************************************************************************)
VerticalMode == config.verticalOnly /\ ~config.horizontalOnly
HorizontalMode == ~config.verticalOnly /\ config.horizontalOnly
AnyMode == ~config.verticalOnly /\ ~config.horizontalOnly

\* The latest step was an end event that reached the classification.
Ended == out.handled
\* ... and it counted as a swipe.
Swiped == out.handled /\ out.swipe # "none"
\* ... and it issued a scroll command.
Scrolled == out.handled /\ out.scrollTo # <<>>

Idle ==
    /\ touchStartX = NULL
    /\ touchStartY = NULL
    /\ touchStartTime = NULL
    /\ isScrolling = FALSE

VerticalBranch(deltaY) == IF deltaY > 0 THEN "down" ELSE "up"
HorizontalBranch(deltaX) == IF deltaX > 0 THEN "right" ELSE "left"

\* f <= g for finite fractions with positive denominators
FLeq(f, g) == f[1] * g[2] <= g[1] * f[2]

VerticalConfig == [DEFAULT_CONFIG EXCEPT !.verticalOnly = TRUE]

(***************************************************************************)
(* C1.  In any-axis mode an end event with |deltaY| = |deltaX| is          *)
(* classified on the vertical branch ('down' when deltaY > 0, 'up'         *)
(* otherwise; deltaX = 40, deltaY = -40 gives 'up'), and when the absolute *)
(* deltas differ the larger one governs.                                   *)
(***************************************************************************)
C1_TieResolvesVertical ==
    (AnyMode /\ Swiped) =>
        out.swipe = IF Abs(out.deltaY) >= Abs(out.deltaX)
                    THEN VerticalBranch(out.deltaY)
                    ELSE HorizontalBranch(out.deltaX)

(***************************************************************************)
(* C2.  A throwing onSwipe callback is caught at the boundary: after the   *)
(* end event no error has left the handler and the machine is Idle         *)
(* (origin cleared, axis lock false).                                      *)
(***************************************************************************)
C2_CallbackErrorIsolated ==
    Ended => (~out.threw /\ Idle)

(***************************************************************************)
(* C3.  After destroy() every touch event is a no-op: no step changes the  *)
(* gesture state, invokes onSwipe, issues a scroll command or throws.      *)
(***************************************************************************)
C3_NoEffectAfterDestroy ==
    [][destroyed =>
          /\ UNCHANGED <<touchStartX, touchStartY, touchStartTime, isScrolling>>
          /\ ~out'.onSwipeCalled
          /\ out'.scrollTo = <<>>
          /\ ~out'.threw]_vars

(***************************************************************************)
(* C4.  destroy() cancels every pending timer of the handler: when it      *)
(* returns, no hide timer and no snap timer scheduled earlier is pending.  *)
(***************************************************************************)
C4_DestroyCancelsTimers ==
    [][Destroy => timers' = <<>>]_vars

(***************************************************************************)
(* C5.  A repeated trigger restarts the overlay's hide timer: until        *)
(* feedbackDuration ms after an overlay's latest trigger, which is while   *)
(* the hide timer of that trigger is pending and not yet due, the overlay  *)
(* is not hidden (no timer of an earlier trigger sets its opacity to 0).   *)
(***************************************************************************)
C5_LastTriggerWins ==
    \A i \in 1..Len(timers) :
        timers[i].due > now =>
            /\ timers[i].kind = "hideTop" => gradientOverlay # "0"
            /\ timers[i].kind = "hideBottom" => gradientOverlayBottom # "0"
(***************************************************************************)
(* C6.  An end event counts as a swipe exactly when the governing-axis     *)
(* absolute delta is >= minSwipeDistance and the axis constraint holds     *)
(* (vertical mode: |deltaY| > |deltaX|, governed by Y; horizontal mode:    *)
(* |deltaX| > |deltaY|, governed by X; any mode: governed by the larger    *)
(* delta).  With the default distance 26: deltaY = 25 is no swipe,         *)
(* deltaY = 26 is one, and |deltaX| > |deltaY| is none at any distance.    *)
(***************************************************************************)
GoverningDelta ==
    IF VerticalMode THEN Abs(out.deltaY)
    ELSE IF HorizontalMode THEN Abs(out.deltaX)
    ELSE Max(Abs(out.deltaX), Abs(out.deltaY))

AxisConstraint ==
    /\ VerticalMode => Abs(out.deltaY) > Abs(out.deltaX)
    /\ HorizontalMode => Abs(out.deltaX) > Abs(out.deltaY)

C6_SwipeValidity ==
    /\ (Ended /\ (VerticalMode \/ HorizontalMode \/ AnyMode)) =>
           (Swiped <=> (GoverningDelta >= config.minSwipeDistance /\ AxisConstraint))
    /\ ~isValidSwipe(VerticalConfig, 0, 25)
    /\ isValidSwipe(VerticalConfig, 0, 26)
    /\ ~isValidSwipe(VerticalConfig, 100, 60)

C6_Witness ==
    /\ VerticalMode
    /\ Swiped
    /\ Abs(out.deltaY) = config.minSwipeDistance

(***************************************************************************)
(* C7.  The direction of a valid swipe follows the sign of the governing   *)
(* delta: vertical mode, 'down' when deltaY > 0 and 'up' otherwise;        *)
(* horizontal mode, 'right' when deltaX > 0 and 'left' otherwise           *)
(* (deltaY = +50 gives 'down', deltaY = -50 gives 'up').                   *)
(***************************************************************************)
C7_DirectionSign ==
    /\ (Swiped /\ VerticalMode) => out.swipe = VerticalBranch(out.deltaY)
    /\ (Swiped /\ HorizontalMode) => out.swipe = HorizontalBranch(out.deltaX)
    /\ getSwipeDirection(VerticalConfig, 0, 50) = "down"
    /\ getSwipeDirection(VerticalConfig, 0, -50) = "up"

C7_Witness ==
    /\ VerticalMode
    /\ Swiped
    /\ out.deltaY < 0
    /\ out.swipe = "up"

(***************************************************************************)
(* C8.  The scroll amount of a valid vertical swipe is |deltaY| when       *)
(* momentum is disabled or |deltaY| / elapsed <= 0.5, and                  *)
(* |deltaY| * momentumMultiplier * min(|deltaY| / elapsed, 2) otherwise;   *)
(* an elapsed time of 0 counts as above the threshold, with the factor 2.  *)
(* deltaY = -60 over 100 ms with multiplier 2.5 gives 90.                  *)
(***************************************************************************)
ExpectedAmount(cfg, absDeltaY, elapsed) ==
    IF ~cfg.enableMomentum \/ (elapsed > 0 /\ 2 * absDeltaY <= elapsed)
    THEN <<absDeltaY, 1>>
    ELSE IF elapsed = 0 \/ absDeltaY >= 2 * elapsed
    THEN Norm(<<absDeltaY * 2 * cfg.momentumMultiplier[1],
                cfg.momentumMultiplier[2]>>)
    ELSE Norm(<<absDeltaY * absDeltaY * cfg.momentumMultiplier[1],
                elapsed * cfg.momentumMultiplier[2]>>)

VerticalSwipeScrolled ==
    Scrolled /\ Abs(out.deltaY) > Abs(out.deltaX)

C8_ScrollAmount ==
    /\ VerticalSwipeScrolled =>
           out.scrollAmount = ExpectedAmount(config, Abs(out.deltaY), out.deltaTime)
    /\ scrollAmount(VerticalConfig, -60, 100) = <<90, 1>>

C8_Witness ==
    /\ VerticalSwipeScrolled
    /\ config.enableMomentum
    /\ out.deltaTime = 0
    /\ out.scrollAmount =
           FMul(<<Abs(out.deltaY) * VelocityCap, 1>>, config.momentumMultiplier)

(***************************************************************************)
(* C9.  Momentum monotonicity, as claimed: with momentum enabled and any   *)
(* momentumMultiplier, for a fixed deltaY a shorter elapsed time never     *)
(* gives a smaller scroll amount than a longer one, and the velocity       *)
(* factor never exceeds its value at velocity 2.                           *)
(***************************************************************************)
Elapsed == 0..(2 * MaxTime)

MonotoneFromHere ==
    \A later \in Elapsed :
        later >= out.deltaTime =>
            FLeq(scrollAmount(config, out.deltaY, later), out.scrollAmount)

FactorCapped ==
    FLeq(out.scrollAmount,
         FMul(<<Abs(out.deltaY) * VelocityCap, 1>>, config.momentumMultiplier))

C9_MonotoneAnyMultiplier ==
    (VerticalSwipeScrolled /\ config.enableMomentum) =>
        (MonotoneFromHere /\ FactorCapped)

(***************************************************************************)
(* C9, amended.  With momentum enabled and a momentumMultiplier of at      *)
(* least 2 (the default is 2.5), for a fixed deltaY a shorter elapsed time *)
(* never gives a smaller scroll amount than a longer one, and the amount   *)
(* never exceeds the one at velocity 2.                                    *)
(***************************************************************************)
C9_MonotoneFromTwo ==
    (VerticalSwipeScrolled /\ config.enableMomentum
        /\ FLeq(<<2, 1>>, config.momentumMultiplier)) =>
        (MonotoneFromHere /\ FactorCapped)

C9_Witness ==
    /\ VerticalSwipeScrolled
    /\ config.enableMomentum
    /\ config.momentumMultiplier = <<2, 1>>
    /\ out.deltaTime > 0
    /\ FGreater(<<Abs(out.deltaY), out.deltaTime>>, Half)
    /\ ~FGreater(<<Abs(out.deltaY), out.deltaTime>>, <<2, 1>>)

(***************************************************************************)
(* C10.  The top of a scroll command is currentScrollTop + scrollAmount    *)
(* for 'up' and currentScrollTop - scrollAmount for 'down', clamped below  *)
(* at 0; it is never negative (scroll position 10, 'down', amount 1000     *)
(* requests 0).                                                            *)
(***************************************************************************)
C10_ScrollTarget ==
    /\ Scrolled =>
           LET cur == <<out.currentScrollTop, 1>>
               raw == IF out.swipe = "up" THEN FAdd(cur, out.scrollAmount)
                                          ELSE FSub(cur, out.scrollAmount)
           IN  /\ out.swipe \in {"up", "down"}
               /\ out.scrollTo[1] >= 0
               /\ out.scrollTo = IF raw[1] < 0 THEN <<0, 1>> ELSE raw
    /\ scrollToTop("down", 10, <<1000, 1>>) = <<0, 1>>
    /\ scrollToTop("up", 200, <<90, 1>>) = <<290, 1>>

C10_Witness ==
    /\ Scrolled
    /\ out.swipe = "down"
    /\ out.currentScrollTop > 0
    /\ FGreater(out.scrollAmount, <<out.currentScrollTop, 1>>)
    /\ out.scrollTo = <<0, 1>>

(***************************************************************************)
(* C11.  A cancel event, at any point after a start or with no interaction *)
(* in progress, produces no swipe result, calls neither onSwipe nor        *)
(* scrollTo, touches no overlay and schedules no timer, and leaves the     *)
(* gesture state as the constructor left it (Idle), which is all a later   *)
(* start/move/end sequence reads of it.                                    *)
(***************************************************************************)
C11_CancelDiscards ==
    [][lastEvent' \in {"touchcancel", "touchcancel idle"} =>
          /\ Idle'
          /\ out' = Quiet
          /\ UNCHANGED <<gradientOverlay, gradientOverlayBottom, timers,
                         scrollTop>>]_vars

C11_Witness ==
    /\ lastEvent = "touchcancel"
    /\ Idle
    /\ out = Quiet

(***************************************************************************)
(* C12.  An end event that classifies a valid swipe calls a configured     *)
(* onSwipe exactly once, with the classified direction and the raw deltaX, *)
(* deltaY and deltaTime, and before the scrollTo of the same swipe; no     *)
(* other step (an invalid swipe, a cancel, any other event) calls it.      *)
(***************************************************************************)
Count(x, seq) == Cardinality({i \in 1..Len(seq) : seq[i] = x})

C12_OnSwipeOncePerSwipe ==
    /\ (Swiped /\ config.onSwipe # "absent") =>
           /\ Count("onSwipe", out.calls) = 1
           /\ out.calls[1] = "onSwipe"
           /\ out.onSwipeArgs =
                  <<out.swipe, out.deltaX, out.deltaY, out.deltaTime>>
    /\ ~Swiped =>
           /\ Count("onSwipe", out.calls) = 0
           /\ out.onSwipeArgs = <<>>

C12_Witness ==
    /\ Swiped
    /\ out.calls = <<"onSwipe", "scrollTo">>
    /\ out.onSwipeArgs = <<"up", 0, -MinSwipe, 1>>

(***************************************************************************)
(* C13.  In vertical, horizontal and any-axis mode a step calls scrollTo   *)
(* exactly once when it is an end event classifying a valid swipe in       *)
(* vertical mode, and not at all otherwise (an invalid swipe, a cancel,    *)
(* any other event, horizontal or any-axis mode).                          *)
(***************************************************************************)
C13_ScrollOncePerVerticalSwipe ==
    (VerticalMode \/ HorizontalMode \/ AnyMode) =>
        Count("scrollTo", out.calls) = IF Swiped /\ VerticalMode THEN 1 ELSE 0

(***************************************************************************)
(* C14.  destroy() is idempotent: a second or later call throws nothing    *)
(* and changes nothing of the handler's state, and after it, as after the  *)
(* first call, none of the handler's overlays is left.                     *)
(***************************************************************************)
C14_DestroyIdempotent ==
    [][lastEvent' \in {"destroy", "destroy again"} =>
          /\ ~out'.threw
          /\ gradientOverlay' = "null"
          /\ gradientOverlayBottom' = "null"
          /\ lastEvent' = "destroy again" =>
                 UNCHANGED <<config, touchStartX, touchStartY, touchStartTime,
                             isScrolling, gradientOverlay, gradientOverlayBottom,
                             listenersBound, timers, now, scrollTop, sections,
                             destroyed>>]_vars

C14_Witness ==
    /\ lastEvent = "destroy again"
    /\ config.showVisualFeedback
    /\ config.enableGradient
    /\ gradientOverlay = "null"
    /\ gradientOverlayBottom = "null"
    /\ ~out.threw

(***************************************************************************)
(* C15.  When the target resolves to nothing, initSwipeHandler returns     *)
(* null and logs one warning, without throwing, and no handler exists: no  *)
(* listener is bound and no overlay is created, whatever the configuration *)
(* passed, so that no touch event has any effect.                          *)
(***************************************************************************)
C15_NullTargetNoHandler ==
    element = "null" =>
        /\ handle = "null"
        /\ Len(console) = 1
        /\ ~listenersBound
        /\ gradientOverlay = "null"
        /\ gradientOverlayBottom = "null"
        /\ Idle
        /\ out = Quiet

C15_Witness ==
    /\ element = "null"
    /\ handle = "null"
    /\ console # <<>>
    /\ config.showVisualFeedback
    /\ config.enableGradient

(***************************************************************************)
(* C16.  Of the two gradient overlays, the top one is shown on a downward  *)
(* swipe (direction 'down') and the bottom one on an upward swipe          *)
(* (direction 'up').                                                       *)
(***************************************************************************)
C16_TopOverlayOnDown ==
    (Scrolled /\ config.enableGradient /\ gradientOverlay # "null"
        /\ gradientOverlayBottom # "null") =>
        /\ out.swipe = "down" => gradientOverlay = "1"
        /\ out.swipe = "up" => gradientOverlayBottom = "1"

(***************************************************************************)
(* C17.  No handler calls preventDefault: in particular every move event   *)
(* in vertical mode, whether the axis is locked or not, returns without    *)
(* suppressing the browser's default action.                               *)
(***************************************************************************)
C17_NeverPreventsDefault ==
    ~out.preventDefault

C17_Witness ==
    /\ lastEvent = "touchmove"
    /\ VerticalMode
    /\ isScrolling
    /\ ~out.preventDefault

(***************************************************************************)
(* C18.  After an end event that arrives while an interaction is tracked   *)
(* (it reaches the classification), the machine is Idle: the origin and    *)
(* its timestamp are cleared and the axis lock is false, for a valid and   *)
(* an invalid swipe alike.                                                 *)
(***************************************************************************)
C18_IdleAfterEnd ==
    Ended =>
        /\ touchStartX = NULL /\ touchStartY = NULL /\ touchStartTime = NULL
        /\ ~isScrolling

(***************************************************************************)
(* C19.  Tracking begins only on a start event with exactly one touch      *)
(* point: a start event carrying two or more touch points leaves the       *)
(* origin, its timestamp and the axis lock as they were.                   *)
(***************************************************************************)
C19_StartNeedsOneTouch ==
    [][lastEvent' = "touchstart, two touches" =>
          UNCHANGED <<touchStartX, touchStartY, touchStartTime,
                      isScrolling>>]_vars

(***************************************************************************)
(* C20.  Once the axis is locked it stays locked until the interaction's   *)
(* end or cancel event: no other event (a further move, a start event      *)
(* from another finger) sets isScrolling back to false.                    *)
(***************************************************************************)
C20_LockHeldUntilEnd ==
    [][(isScrolling /\ ~isScrolling') =>
          lastEvent' \in {"touchend", "touchcancel"}]_vars

(***************************************************************************)
(* C21.  Malformed and duplicate events are no-ops that never throw: an    *)
(* end or cancel event arriving while Idle leaves the state Idle, with no  *)
(* callback, no scroll command, no overlay change and no timer, and a      *)
(* start event with no touch point leaves the gesture state as it was.     *)
(***************************************************************************)
C21_MalformedEventsIgnored ==
    [][/\ (Idle /\ lastEvent' \in {"touchend", "touchcancel idle"}) =>
              /\ Idle'
              /\ out' = Quiet
              /\ UNCHANGED <<gradientOverlay, gradientOverlayBottom, timers>>
       /\ lastEvent' = "touchstart, no touch" =>
              /\ out' = Quiet
              /\ UNCHANGED <<touchStartX, touchStartY, touchStartTime,
                             isScrolling, gradientOverlay,
                             gradientOverlayBottom, timers>>]_vars

C21_Witness ==
    /\ lastEvent = "touchend"
    /\ ~out.handled
    /\ Idle
    /\ now > 0

(***************************************************************************)
(* C22.  The section snapper picks, among the sections whose distance      *)
(* |sectionTop - currentScrollTop| is strictly less than the viewport      *)
(* height, one with the minimum distance, the first in document order on   *)
(* a tie, and that is the section scrolled into view; with no section, or  *)
(* none within one viewport height, it picks none, schedules nothing and   *)
(* throws nothing.  currentScrollTop is the position the snapper reads,    *)
(* the page's position when the end event returns.                         *)
(***************************************************************************)
Distance(secs, i, cur) == Abs(secs[i] - cur)

InRange(secs, cur) ==
    {i \in 1..Len(secs) : Distance(secs, i, cur) < ViewportHeight}

IsNearest(secs, cur, n) ==
    /\ n \in InRange(secs, cur)
    /\ \A i \in InRange(secs, cur) :
           \/ Distance(secs, n, cur) < Distance(secs, i, cur)
           \/ (Distance(secs, n, cur) = Distance(secs, i, cur) /\ n <= i)

\* Every page of up to MaxSections sections with tops from 0 to one pixel
\* beyond a viewport height.
MaxSections == 3

Pages == UNION {[1..n -> 0..(ViewportHeight + 1)] : n \in 0..MaxSections}

\* nearestSection against the claim's description, on every such page at
\* every scroll position.
NearestOnEveryPage ==
    \A secs \in Pages : \A cur \in 0..MaxScrollTop :
        IF InRange(secs, cur) = {}
        THEN nearestSection(secs, cur) = 0
        ELSE IsNearest(secs, cur, nearestSection(secs, cur))

\* Single pages: two sections in range of which the later is nearer, the
\* minimum in the middle, ties, and a section at exactly, just within and
\* just beyond one viewport height.
NearestExamples ==
    /\ nearestSection(<<2, 1>>, 0) = 2
    /\ nearestSection(<<2, 1, 1>>, 0) = 2
    /\ nearestSection(<<1, 5, 2>>, 0) = 1
    /\ nearestSection(<<1, 5, 2>>, 3) = 3
    /\ nearestSection(<<0, 1>>, 0) = 1
    /\ nearestSection(<<0, 1>>, 1) = 2
    /\ nearestSection(<<0, 2>>, 1) = 1
    /\ nearestSection(<<ViewportHeight>>, 0) = 0
    /\ nearestSection(<<ViewportHeight - 1>>, 0) = 1
    /\ nearestSection(<<ViewportHeight + 1, ViewportHeight>>, 0) = 0
    /\ nearestSection(<<ViewportHeight, 1>>, 0) = 2
    /\ nearestSection(<<ViewportHeight + 2, 3, 1>>, 2) = 2
    /\ nearestSection(<<>>, 0) = 0

SnapperRan == Scrolled /\ config.snapToSections

C22_SnapsToNearest ==
    [][/\ SnapperRan' =>
              /\ ~out'.threw
              /\ IF InRange(sections, scrollTop') = {}
                 THEN /\ out'.snapTarget = 0
                      /\ timers' = timers
                 ELSE /\ IsNearest(sections, scrollTop', out'.snapTarget)
                      /\ timers' = Append(timers,
                                         [kind |-> "snap",
                                          due |-> now + SnapDelay,
                                          section |-> out'.snapTarget])
              /\ NearestOnEveryPage
              /\ NearestExamples
       /\ out'.scrollIntoView # 0 =>
              /\ timers # <<>>
              /\ timers[NextTimer].kind = "snap"
              /\ out'.scrollIntoView = timers[NextTimer].section]_vars

\* The snapper has passed over a section out of range and over a section in
\* range that is farther than the later one it picked.
C22_Witness ==
    /\ SnapperRan
    /\ out.snapTarget # 0
    /\ \E i \in 1..Len(sections) : i \notin InRange(sections, scrollTop)
    /\ \E i \in InRange(sections, scrollTop) :
           /\ i < out.snapTarget
           /\ Distance(sections, i, scrollTop)
                  > Distance(sections, out.snapTarget, scrollTop)

C24_AxisLock ==
    [][\A touches \in TouchLists :
          (/\ touches # <<>>
           /\ touchStartY # NULL
           /\ ~isScrolling
           /\ VerticalMode \/ HorizontalMode \/ AnyMode
           /\ TouchMove(touches)) =>
              LET dx == Abs(touches[1][1] - touchStartX)
                  dy == Abs(touches[1][2] - touchStartY)
              IN  /\ isScrolling' <=> \/ (VerticalMode /\ dy > dx)
                                      \/ (HorizontalMode /\ dx > dy)
                                      \/ AnyMode
                  /\ (~AnyMode /\ dx = dy) => ~isScrolling']_vars

C24_Witness ==
    /\ HorizontalMode
    /\ touchStartX # NULL
    /\ isScrolling

(***************************************************************************)
(* C25.  In every configuration, verticalOnly and horizontalOnly both true *)
(* included, a scroll command issued by an end event comes from a          *)
(* displacement with |deltaY| >= minSwipeDistance and |deltaY| > |deltaX|. *)
(***************************************************************************)
C25_ScrollOnlyFromVerticalSwipe ==
    Scrolled =>
        /\ Abs(out.deltaY) >= config.minSwipeDistance
        /\ Abs(out.deltaY) > Abs(out.deltaX)

(***************************************************************************)
(* C26.  The snap target is chosen during the end event, from the position *)
(* the page has when the scroll command has been issued, which with        *)
(* scrollSmoothness 'smooth' is the position before the momentum scroll    *)
(* moves the page, and is kept by the timer: no step changes a pending     *)
(* timer, a change of the scroll position during the delay leaves every    *)
(* timer pending, and the section scrolled into view when the delay        *)
(* expires is the one chosen at the end event.                             *)
(***************************************************************************)
C26_SnapTargetFixedAtEnd ==
    [][/\ \A i \in 1..Len(timers') :
              (timers'[i].kind = "snap" /\ i > Len(timers)) =>
                  /\ Scrolled'
                  /\ timers'[i].section = nearestSection(sections, scrollTop')
                  /\ config.scrollSmoothness = "smooth" => scrollTop' = scrollTop
       /\ \/ /\ Len(timers') >= Len(timers)
             /\ SubSeq(timers', 1, Len(timers)) = timers
          \/ /\ timers # <<>>
             /\ timers' = Without(timers, NextTimer)
       /\ (scrollTop' # scrollTop /\ ~Scrolled' /\ out'.scrollIntoView = 0) =>
              timers' = timers
       /\ out'.scrollIntoView # 0 =>
              /\ timers # <<>>
              /\ timers[NextTimer].kind = "snap"
              /\ timers' = Without(timers, NextTimer)
              /\ out'.scrollIntoView = timers[NextTimer].section]_vars

C26_Witness ==
    /\ out.scrollIntoView # 0
    /\ nearestSection(sections, scrollTop) # out.scrollIntoView

\* C26 as stated, whatever the scrollSmoothness: the target is the section
\* nearest to the position before the scroll command, and the page has not
\* moved when it is chosen.
C26_TargetFromPositionBeforeScroll ==
    [][/\ \A i \in 1..Len(timers') :
              (timers'[i].kind = "snap" /\ i > Len(timers)) =>
                  /\ scrollTop' = scrollTop
                  /\ timers'[i].section = nearestSection(sections, scrollTop)
       /\ (scrollTop' # scrollTop /\ out'.scrollIntoView = 0) => timers' = timers
       /\ out'.scrollIntoView # 0 =>
              /\ timers # <<>>
              /\ out'.scrollIntoView = timers[NextTimer].section]_vars

(***************************************************************************)
(* C27.  When destroy() has run while a hide timer was pending, the timer  *)
(* still fires and finds its overlay reference null: it changes no overlay *)
(* and throws nothing, in every interleaving of swipes, destroy() and      *)
(* timer expiry.                                                           *)
(***************************************************************************)
C27_HideTimerAfterDestroy ==
    [][(destroyed /\ lastEvent' = "timer") =>
          /\ gradientOverlay = "null"
          /\ gradientOverlayBottom = "null"
          /\ UNCHANGED <<gradientOverlay, gradientOverlayBottom>>
          /\ ~out'.threw]_vars

C27_Witness ==
    /\ destroyed
    /\ lastEvent = "timer"
    /\ gradientOverlay = "null"
    /\ gradientOverlayBottom = "null"
    /\ ~out.threw

(***************************************************************************)
(* C28.  A move event calls neither onSwipe nor scrollTo, changes no       *)
(* overlay and no timer, and leaves the recorded origin and start time as  *)
(* they are; the only state it can change is isScrolling, from false to    *)
(* true, and a move event while Idle changes nothing.                      *)
(***************************************************************************)
C28_MoveFrame ==
    [][lastEvent' = "touchmove" =>
          /\ out' = Quiet
          /\ UNCHANGED <<touchStartX, touchStartY, touchStartTime,
                         gradientOverlay, gradientOverlayBottom, timers,
                         scrollTop, now, destroyed, listenersBound>>
          /\ isScrolling' # isScrolling => (~isScrolling /\ isScrolling')
          /\ Idle => Idle']_vars

C28_Witness ==
    /\ lastEvent = "touchmove"
    /\ config.onSwipe = "returns"
    /\ touchStartX # NULL
    /\ isScrolling
    /\ out = Quiet

(***************************************************************************)
(* C29.  The document-level double-tap guard: a touchend whose target lies *)
(* inside an interactive element is never default-prevented and records    *)
(* its time as the last touch end; a touchend on any other target is       *)
(* default-prevented exactly when it comes at most 300 ms after the last   *)
(* recorded touch end (never when none was recorded), and then becomes the *)
(* last recorded touch end.                                                *)
(***************************************************************************)
C29_DoubleTapGuard ==
    [][/\ lastEvent' = "touchend, interactive" =>
              /\ ~prevented'
              /\ lastTouchEnd' = now
       /\ lastEvent' = "touchend" =>
              /\ prevented' <=> (lastTouchEnd # 0 /\ now - lastTouchEnd <= 300)
              /\ lastTouchEnd' = now]_vars

C29_Witness ==
    /\ lastEvent = "touchend"
    /\ prevented
    /\ now = StartClock + 300

(***************************************************************************)
(* C30.  At most one auto-hide timer of the rail is pending at any time.   *)
(* A step that runs showRail leaves exactly one, due 4000 ms later; the    *)
(* timer callback collapses the rail no earlier than 4000 ms after the     *)
(* most recent showRail, and once showRail has run nothing else collapses  *)
(* a shown rail.                                                           *)
(***************************************************************************)
C30_OneHideTimer ==
    [][/\ Len(windowTimers') <= 1
       /\ lastEvent' \in {"frame", "pointerdown, showRail"} =>
              /\ lastShown' = now
              /\ railClass' = "shown"
              /\ windowTimers' = <<now + 4000>>
       /\ lastEvent' = "hideTimer" =>
              /\ railClass' = "collapsed"
              /\ now' >= lastShown + 4000
       /\ (lastShown # NULL /\ railClass = "shown" /\ railClass' = "collapsed") =>
              lastEvent' = "hideTimer"]_vars

C30_Witness ==
    /\ lastEvent = "hideTimer"
    /\ railClass = "collapsed"
    /\ windowTimers = <<>>
    /\ lastShown > StartClock
    /\ now = lastShown + 4000
====
